---- MODULE Spec2Model ----
(***************************************************************************)
(* A model of records.py: the record() decorator, which turns a function   *)
(* declaration into an immutable record class, and the Record base class    *)
(* (equality, hash, mutation rejection, representation).                    *)
(*                                                                          *)
(* Python objects are modelled as tagged records [t |-> <type>, v |-> ...]: *)
(*   int 1        [t |-> "int",   v |-> 1]                                  *)
(*   float 1.0    [t |-> "float", v |-> 1]                                  *)
(*   str '5'      [t |-> "str",   v |-> "5"]                                *)
(*   tuple        [t |-> "tuple", v |-> <<items>>]                          *)
(*   dict         [t |-> "dict",  v |-> <<<<key, value>>, ...>>]            *)
(*                (pairs in insertion order, keys are Python strs)          *)
(* Identifiers (parameter, field and class names) are TLA+ strings.         *)
(* Annotation texts are sequences of characters, so that the prefix and     *)
(* suffix operations of the source act on them as they do in Python.        *)
(***************************************************************************)
EXTENDS Integers, Sequences, FiniteSets, TLC

VARIABLES
    classes,   \* the record classes the caller kept, in order of definition
    funcs,     \* funcs[i]: the function object classes[i] was made from
    objs,      \* the live objects: record instances and hand-built carriers
    last       \* what the last operation did: its inputs and its outcome

vars == <<classes, funcs, objs, last>>

-----------------------------------------------------------------------------
(* Bounds of the model *)

MaxParams == 3      \* parameters of a declaration (definition-time model)
MaxCallParams == 2  \* parameters of a declaration that is also instantiated
MaxEqParams == 2    \* parameters of a declaration in the comparison model
MaxClasses == 2     \* record classes kept at a time (comparison model)
MaxObjs == 2        \* live objects at a time (comparison model)
MaxCallObjs == 1    \* live objects at a time (construction model)
MaxPosArgs == 3     \* positional arguments of a constructor call
MaxKwArgs == 1      \* keyword arguments of a constructor call

-----------------------------------------------------------------------------
(* Python values and builtins *)

PyInt(n) == [t |-> "int", v |-> n]
PyFloat(n) == [t |-> "float", v |-> n]
PyStr(s) == [t |-> "str", v |-> s]
PyTuple(items) == [t |-> "tuple", v |-> items]
PyDict(pairs) == [t |-> "dict", v |-> pairs]

\* inspect.Parameter.empty / inspect.Signature.empty
Empty == [t |-> "empty", v |-> 0]
\* The None object
None == [t |-> "None", v |-> 0]
\* What an __eq__ method returns: True, False or the NotImplemented singleton
True == "True"
False == "False"
NotImplemented == "NotImplemented"

Range(s) == {s[i] : i \in DOMAIN s}

RECURSIVE Join(_, _)
\* sep.join(parts)
Join(parts, sep) ==
    IF parts = <<>> THEN ""
    ELSE IF Len(parts) = 1 THEN parts[1]
    ELSE parts[1] \o sep \o Join(Tail(parts), sep)

\* str(n) for the small non-negative integers of the model
Digits == <<"0", "1", "2", "3", "4", "5", "6", "7", "8", "9">>
IntStr(n) == Digits[n + 1]

\* a == b on numbers and strs: numbers compare by value across int and float
ScalarEq(a, b) ==
    IF a.t \in {"int", "float"} /\ b.t \in {"int", "float"} THEN a.v = b.v
    ELSE IF a.t = "str" /\ b.t = "str" THEN a.v = b.v
    ELSE IF a.t = "None" /\ b.t = "None" THEN TRUE
    ELSE FALSE

\* d.get(key) on the pair list of a dict; Empty when the key is absent
DictGet(pairs, key) ==
    IF \E i \in DOMAIN pairs : pairs[i][1] = key
    THEN pairs[CHOOSE i \in DOMAIN pairs : pairs[i][1] = key][2]
    ELSE Empty

DictKeys(pairs) == {pairs[i][1] : i \in DOMAIN pairs}

\* a == b on the values of the model (containers hold scalars)
PyEq(a, b) ==
    IF a.t = "tuple" /\ b.t = "tuple"
    THEN /\ Len(a.v) = Len(b.v)
         /\ \A i \in DOMAIN a.v : ScalarEq(a.v[i], b.v[i])
    ELSE IF a.t = "dict" /\ b.t = "dict"
    THEN /\ DictKeys(a.v) = DictKeys(b.v)
         /\ \A k \in DictKeys(a.v) : ScalarEq(DictGet(a.v, k), DictGet(b.v, k))
    ELSE IF a.t \in {"tuple", "dict"} \/ b.t \in {"tuple", "dict"} THEN FALSE
    ELSE ScalarEq(a, b)

\* repr(v) of a scalar
ScalarRepr(x) ==
    IF x.t = "int" THEN IntStr(x.v)
    ELSE IF x.t = "float" THEN IntStr(x.v) \o ".0"
    ELSE IF x.t = "str" THEN "'" \o x.v \o "'"
    ELSE "None"

\* repr(v)
PyRepr(x) ==
    IF x.t = "tuple"
    THEN IF Len(x.v) = 1 THEN "(" \o ScalarRepr(x.v[1]) \o ",)"
         ELSE "(" \o Join([i \in DOMAIN x.v |-> ScalarRepr(x.v[i])], ", ") \o ")"
    ELSE IF x.t = "dict"
    THEN "{" \o Join([i \in DOMAIN x.v |->
                        "'" \o x.v[i][1] \o "': " \o ScalarRepr(x.v[i][2])], ", ")
             \o "}"
    ELSE ScalarRepr(x)

\* hash(v) of a scalar: equal numbers hash alike (hash(1) == hash(1.0)); the
\* hash of a str is an opaque token that depends on the str alone.
ScalarHash(x) ==
    IF x.t \in {"int", "float"} THEN <<"num", x.v>>
    ELSE IF x.t = "str" THEN <<"str", x.v>>
    ELSE <<"None">>

\* hash(v): [ok |-> TRUE, h |-> hash] or the TypeError of an unhashable value.
\* The hash of a tuple is a function of the sequence of its items' hashes and
\* nothing else; it is modelled as that sequence.
PyHash(x) ==
    IF x.t = "dict" THEN [ok |-> FALSE, exc |-> "TypeError"]
    ELSE IF x.t = "tuple"
    THEN [ok |-> TRUE, h |-> <<"tuple", [i \in DOMAIN x.v |-> ScalarHash(x.v[i])]>>]
    ELSE [ok |-> TRUE, h |-> ScalarHash(x)]

\* hash(tuple(items)) for items that may themselves be tuples or dicts
HashTuple(items) ==
    IF \E i \in DOMAIN items : ~PyHash(items[i]).ok
    THEN [ok |-> FALSE, exc |-> "TypeError"]
    ELSE [ok |-> TRUE, h |-> <<"tuple", [i \in DOMAIN items |-> PyHash(items[i]).h]>>]

\* list(s) for a str s: its characters, for the identifiers of the model
StrChars(s) ==
    CASE s = "x" -> <<"x">>
      [] s = "y" -> <<"y">>
      [] s = "kw" -> <<"k", "w">>
      [] s = "self" -> <<"s", "e", "l", "f">>
      [] s = "object" -> <<"o", "b", "j", "e", "c", "t">>
      [] OTHER -> <<s>>

-----------------------------------------------------------------------------
(* Declarations: the functions handed to record() *)

POSITIONAL_ONLY == "POSITIONAL_ONLY"
POSITIONAL_OR_KEYWORD == "POSITIONAL_OR_KEYWORD"
VAR_POSITIONAL == "VAR_POSITIONAL"
KEYWORD_ONLY == "KEYWORD_ONLY"
VAR_KEYWORD == "VAR_KEYWORD"

Kinds == {POSITIONAL_ONLY, POSITIONAL_OR_KEYWORD, VAR_POSITIONAL, KEYWORD_ONLY,
          VAR_KEYWORD}

\* The order in which Python requires the kinds to appear in a signature
KindOrder(k) ==
    CASE k = POSITIONAL_ONLY -> 0
      [] k = POSITIONAL_OR_KEYWORD -> 1
      [] k = VAR_POSITIONAL -> 2
      [] k = KEYWORD_ONLY -> 3
      [] k = VAR_KEYWORD -> 4

Parameter(name, kind, default, annotation) ==
    [name |-> name, kind |-> kind, default |-> default, annotation |-> annotation]

IsPositional(p) == p.kind \in {POSITIONAL_ONLY, POSITIONAL_OR_KEYWORD}

\* What inspect.Signature (and the compiler, for a def statement) requires of a
\* parameter list: distinct names, kinds in order, at most one parameter of each
\* variadic kind, no default on a variadic parameter, and no positional
\* parameter without a default after one with a default.
SignatureValid(params) ==
    /\ \A i, j \in DOMAIN params : i # j => params[i].name # params[j].name
    /\ \A i, j \in DOMAIN params :
          i < j => KindOrder(params[i].kind) <= KindOrder(params[j].kind)
    /\ \A i, j \in DOMAIN params :
          (i # j /\ params[i].kind = params[j].kind)
              => params[i].kind \notin {VAR_POSITIONAL, VAR_KEYWORD}
    /\ \A i \in DOMAIN params :
          params[i].kind \in {VAR_POSITIONAL, VAR_KEYWORD} => params[i].default = Empty
    /\ \A i, j \in DOMAIN params :
          (i < j /\ IsPositional(params[i]) /\ IsPositional(params[j])
             /\ params[i].default # Empty) => params[j].default # Empty

\* Annotations: a resolved type, typing.Unpack[M], or a text
TypeObj(n) == [t |-> "type", v |-> n]
UnpackOf(a) == [t |-> "unpack", v |-> <<a>>]
Text(chars) == [t |-> "text", v |-> chars]
\* tuple[a] and dict[str, a]
TupleOf(a) == [t |-> "alias", v |-> <<"tuple", a>>]
DictOf(k, a) == [t |-> "alias", v |-> <<"dict", k, a>>]

T_int == <<"i", "n", "t">>
T_M == <<"M">>
T_UnpackOpen == <<"U", "n", "p", "a", "c", "k", "[">>
T_Close == <<"]">>
T_TupleOpen == <<"t", "u", "p", "l", "e", "[">>
T_DictStrOpen == <<"d", "i", "c", "t", "[", "s", "t", "r", ",", " ">>

\* s.startswith(prefix), s.removeprefix(prefix), s.removesuffix(suffix)
StartsWith(s, prefix) ==
    Len(s) >= Len(prefix) /\ SubSeq(s, 1, Len(prefix)) = prefix
EndsWith(s, suffix) ==
    Len(s) >= Len(suffix) /\ SubSeq(s, Len(s) - Len(suffix) + 1, Len(s)) = suffix
RemovePrefix(s, prefix) ==
    IF StartsWith(s, prefix) THEN SubSeq(s, Len(prefix) + 1, Len(s)) ELSE s
RemoveSuffix(s, suffix) ==
    IF EndsWith(s, suffix) THEN SubSeq(s, 1, Len(s) - Len(suffix)) ELSE s

\* func.__annotations__, in the order the compiler fills it: the annotated
\* positional-or-keyword parameters, then the positional-only ones, then the
\* variadic-positional, keyword-only and variadic-keyword ones, then "return"
FuncAnnotations(func) ==
    LET ofKind(k) == SelectSeq(func.params,
                               LAMBDA p : p.kind = k /\ p.annotation # Empty)
        annotated == ofKind(POSITIONAL_OR_KEYWORD) \o ofKind(POSITIONAL_ONLY)
                     \o ofKind(VAR_POSITIONAL) \o ofKind(KEYWORD_ONLY)
                     \o ofKind(VAR_KEYWORD)
    IN  [i \in DOMAIN annotated |-> <<annotated[i].name, annotated[i].annotation>>]
        \o (IF func.ret # Empty THEN <<<<"return", func.ret>>>> ELSE <<>>)

\* func.__defaults__: the defaults of the positional parameters, or None
FuncDefaults(func) ==
    LET withDefault == SelectSeq(func.params,
                                 LAMBDA p : IsPositional(p) /\ p.default # Empty)
    IN  IF withDefault = <<>> THEN None
        ELSE PyTuple([i \in DOMAIN withDefault |-> withDefault[i].default])

\* func.__kwdefaults__: the defaults of the keyword-only parameters, or None
FuncKwDefaults(func) ==
    LET withDefault == SelectSeq(func.params,
                                 LAMBDA p : p.kind = KEYWORD_ONLY /\ p.default # Empty)
    IN  IF withDefault = <<>> THEN None
        ELSE PyDict([i \in DOMAIN withDefault |->
                        <<withDefault[i].name, withDefault[i].default>>])

-----------------------------------------------------------------------------
(* record(func): the class built from a declaration *)

Raise(exc, msg) == [ok |-> FALSE, exc |-> exc, msg |-> msg]
Return(value) == [ok |-> TRUE, value |-> value]

\* _make_var_positional_annotation
MakeVarPositionalAnnotation(annotation) ==
    IF annotation.t = "text"
    THEN Text(T_TupleOpen \o annotation.v \o T_Close)
    ELSE TupleOf(annotation)

\* _make_var_keyword_annotation without its Unpack cases: always dict[str, T]
MakeVarKeywordAnnotationNoUnpack(annotation) ==
    IF annotation.t = "text"
    THEN Text(T_DictStrOpen \o annotation.v \o T_Close)
    ELSE DictOf(TypeObj("str"), annotation)

\* _make_var_keyword_annotation
MakeVarKeywordAnnotation(annotation) ==
    IF annotation.t = "text"
    THEN IF StartsWith(annotation.v, T_UnpackOpen)
         THEN Text(RemoveSuffix(RemovePrefix(annotation.v, T_UnpackOpen), T_Close))
         ELSE Text(T_DictStrOpen \o annotation.v \o T_Close)
    ELSE IF annotation.t = "unpack"
    THEN annotation.v[1]
    ELSE DictOf(TypeObj("str"), annotation)

\* The return annotation gate
ReturnAnnotationAllowed(func) == func.ret \in {Empty, None}

SelfParameter == Parameter("self", POSITIONAL_ONLY, Empty, Empty)

\* The parameters of init_signature: self, then the declaration's parameters
\* without their defaults and annotations
InitSignatureParams(func) ==
    <<SelfParameter>>
    \o [i \in DOMAIN func.params |->
           [func.params[i] EXCEPT !.default = Empty, !.annotation = Empty]]

\* The statements of the generated __init__: one object.__setattr__(self,
\* '<name>', <name>) per parameter, or pass
InitBody(func) ==
    LET stmts == [i \in DOMAIN func.params |->
                    [stmt |-> "setattr", attr |-> func.params[i].name,
                     value |-> func.params[i].name]]
    IN  IF stmts = <<>> THEN <<[stmt |-> "pass"]>> ELSE stmts

\* SlotsSource without the trailing comma for a single name
SlotsSourceNoComma(func) ==
    [items |-> [i \in DOMAIN func.params |-> func.params[i].name], trailing |-> FALSE]

\* The text put between the parentheses of "__slots__ = (...)": the quoted
\* names separated by commas, with a trailing comma for a single name
SlotsSource(func) ==
    LET names == [i \in DOMAIN func.params |-> func.params[i].name]
    IN  IF Len(func.params) = 1
        THEN [items |-> <<func.params[1].name>>, trailing |-> TRUE]
        ELSE [items |-> names, trailing |-> FALSE]

\* The value of a parenthesised expression list: () is the empty tuple, one
\* item without a trailing comma is that item (a str), anything else a tuple
ParenEval(src) ==
    IF src.items = <<>> THEN [t |-> "tuple", v |-> <<>>]
    ELSE IF Len(src.items) = 1 /\ ~src.trailing THEN [t |-> "str", v |-> src.items[1]]
    ELSE [t |-> "tuple", v |-> src.items]

\* iter(cls.__slots__): the names of a tuple, the characters of a str
SlotsIter(slots) == IF slots.t = "str" THEN StrChars(slots.v) ELSE slots.v

\* The slot descriptors type() creates: a str __slots__ names one slot
SlotNames(slots) == IF slots.t = "str" THEN {slots.v} ELSE Range(slots.v)

\* cls.__annotations__ filled in the order of func.__annotations__
ClsAnnotationsInDictOrder(func) ==
    LET proposed == SelectSeq(FuncAnnotations(func), LAMBDA kv : kv[1] # "return")
        param(n) == func.params[CHOOSE i \in DOMAIN func.params :
                                   func.params[i].name = n]
        annotation(p) ==
            IF p.kind = VAR_POSITIONAL
            THEN MakeVarPositionalAnnotation(DictGet(proposed, p.name))
            ELSE IF p.kind = VAR_KEYWORD
            THEN MakeVarKeywordAnnotation(DictGet(proposed, p.name))
            ELSE DictGet(proposed, p.name)
    IN  [i \in DOMAIN proposed |-> <<proposed[i][1], annotation(param(proposed[i][1]))>>]

\* cls.__annotations__, built in parameter order
ClsAnnotations(func) ==
    LET proposed == SelectSeq(FuncAnnotations(func), LAMBDA kv : kv[1] # "return")
        present == SelectSeq(func.params, LAMBDA p : p.name \in DictKeys(proposed))
        annotation(p) ==
            IF p.kind = VAR_POSITIONAL
            THEN MakeVarPositionalAnnotation(DictGet(proposed, p.name))
            ELSE IF p.kind = VAR_KEYWORD
            THEN MakeVarKeywordAnnotation(DictGet(proposed, p.name))
            ELSE DictGet(proposed, p.name)
    IN  [i \in DOMAIN present |-> <<present[i].name, annotation(present[i])>>]

RECURSIVE MatchArgsKeepKeywordOnly(_, _)
\* The match_args loop breaking at the variadic parameters only
MatchArgsKeepKeywordOnly(params, i) ==
    IF i > Len(params) THEN <<>>
    ELSE IF params[i].kind \in {VAR_POSITIONAL, VAR_KEYWORD} THEN <<>>
    ELSE <<params[i].name>> \o MatchArgsKeepKeywordOnly(params, i + 1)

RECURSIVE MatchArgsFrom(_, _)
\* The loop that fills match_args from parameter i on, with its break
MatchArgsFrom(params, i) ==
    IF i > Len(params) THEN <<>>
    ELSE IF params[i].kind \in {VAR_POSITIONAL, KEYWORD_ONLY, VAR_KEYWORD} THEN <<>>
    ELSE <<params[i].name>> \o MatchArgsFrom(params, i + 1)

\* cls.__match_args__
MatchArgs(func) == MatchArgsFrom(func.params, 1)

\* func.__annotations__ | {"return": None}
InitAnnotations(func) ==
    SelectSeq(FuncAnnotations(func), LAMBDA kv : kv[1] # "return")
    \o <<<<"return", None>>>>

\* record(func): the new class, or the exception raised
record(func) ==
    IF ~ReturnAnnotationAllowed(func)
    THEN Raise("TypeError", "return type annotation can only be 'None' or unset")
    ELSE IF ~SignatureValid(InitSignatureParams(func))
    THEN Raise("ValueError", "duplicate parameter name: 'self'")
    ELSE Return([name |-> func.name,
                 slots |-> ParenEval(SlotsSource(func)),
                 init |-> [params |-> InitSignatureParams(func),
                           body |-> InitBody(func),
                           annotations |-> InitAnnotations(func),
                           defaults |-> FuncDefaults(func),
                           kwdefaults |-> FuncKwDefaults(func)],
                 annotations |-> ClsAnnotations(func),
                 match_args |-> MatchArgs(func)])

-----------------------------------------------------------------------------
(* The declarations the model draws from *)

Func(name, params, ret) == [name |-> name, params |-> params, ret |-> ret]

\* The sequences of k distinct names, and of k kinds in the order Python allows
NameSeqs(k, names) ==
    { ns \in [1..k -> names] : \A i, j \in 1..k : i # j => ns[i] # ns[j] }
KindSeqs(k, kinds) ==
    { ks \in [1..k -> kinds] :
        /\ \A i, j \in 1..k : i < j => KindOrder(ks[i]) <= KindOrder(ks[j])
        /\ \A i, j \in 1..k :
              (i # j /\ ks[i] = ks[j]) => ks[i] \notin {VAR_POSITIONAL, VAR_KEYWORD} }

\* The parameter lists of at most n parameters that a def statement accepts,
\* with names from names, defaults from defaults (Empty: no default) and
\* annotations from annotations (Empty: not annotated)
ParamLists(n, names, kinds, defaults, annotations) ==
    UNION { { ps \in { [i \in 1..k |-> Parameter(ns[i], ks[i], ds[i], as[i])] :
                         ns \in NameSeqs(k, names), ks \in KindSeqs(k, kinds),
                         ds \in [1..k -> defaults], as \in [1..k -> annotations] } :
                SignatureValid(ps) } : k \in 0..n }

\* Annotated declarations without defaults: what the class attributes depend on
DefNames == {"x", "y", "kw"}
DefAnnotations == {Empty, TypeObj("int"), Text(T_int),
                   UnpackOf(TypeObj("M")), Text(T_UnpackOpen \o T_M \o T_Close)}
DefReturns == {Empty, None, TypeObj("int")}

\* The declarations named by classNames with at most n parameters
Funcs(classNames, n, names, kinds, defaults, annotations, returns) ==
    { Func(cn, ps, r) :
        cn \in classNames,
        ps \in ParamLists(n, names, kinds, defaults, annotations),
        r \in returns }

-----------------------------------------------------------------------------
(* Calling a Python function: binding arguments to parameters *)

\* The value bound to self while __init__ runs
SelfRef == [t |-> "self", v |-> 0]

\* The binding of a call with positional arguments args and keyword arguments
\* kwargs (pairs with distinct names, in call order) to the parameters of a
\* function whose __defaults__ is defaults and __kwdefaults__ is kwdefaults:
\* Return(locals), locals a function from parameter names to values, or the
\* TypeError of a call the signature rejects
BindCall(params, defaults, kwdefaults, args, kwargs) ==
    LET idx == DOMAIN params
        pos == {i \in idx : IsPositional(params[i])}
        npos == Cardinality(pos)
        nargs == Len(args)
        hasVarPos == \E i \in idx : params[i].kind = VAR_POSITIONAL
        hasVarKw == \E i \in idx : params[i].kind = VAR_KEYWORD
        \* the parameter a keyword argument names, 0 when it names none
        byKeyword(k) ==
            IF \E i \in idx : /\ params[i].name = k
                              /\ params[i].kind \in {POSITIONAL_OR_KEYWORD, KEYWORD_ONLY}
            THEN CHOOSE i \in idx : params[i].name = k
            ELSE 0
        extra == SelectSeq(kwargs, LAMBDA kv : byKeyword(kv[1]) = 0)
        given(i) == \E j \in DOMAIN kwargs : byKeyword(kwargs[j][1]) = i
        ndefaults == IF defaults = None THEN 0 ELSE Len(defaults.v)
        \* positional parameter i takes defaults[i - (npos - ndefaults)]
        hasDefault(i) ==
            IF params[i].kind = KEYWORD_ONLY
            THEN kwdefaults # None /\ params[i].name \in DictKeys(kwdefaults.v)
            ELSE i > npos - ndefaults
        default(i) ==
            IF params[i].kind = KEYWORD_ONLY
            THEN DictGet(kwdefaults.v, params[i].name)
            ELSE defaults.v[i - (npos - ndefaults)]
        value(i) ==
            IF params[i].kind = VAR_POSITIONAL
            THEN PyTuple(IF nargs > npos THEN SubSeq(args, npos + 1, nargs) ELSE <<>>)
            ELSE IF params[i].kind = VAR_KEYWORD
            THEN PyDict(extra)
            ELSE IF i \in pos /\ i <= nargs THEN args[i]
            ELSE IF given(i) THEN DictGet(kwargs, params[i].name)
            ELSE default(i)
    IN  IF nargs > npos /\ ~hasVarPos
        THEN Raise("TypeError", "too many positional arguments")
        ELSE IF extra # <<>> /\ ~hasVarKw
        THEN Raise("TypeError", "unexpected keyword argument")
        ELSE IF \E i \in pos : i <= nargs /\ given(i)
        THEN Raise("TypeError", "multiple values for argument")
        ELSE IF \E i \in idx :
                  /\ params[i].kind \in {POSITIONAL_ONLY, POSITIONAL_OR_KEYWORD,
                                         KEYWORD_ONLY}
                  /\ ~(i \in pos /\ i <= nargs) /\ ~given(i) /\ ~hasDefault(i)
        THEN Raise("TypeError", "missing required argument")
        ELSE Return([n \in {params[i].name : i \in idx} |->
                        value(CHOOSE i \in idx : params[i].name = n)])

-----------------------------------------------------------------------------
(* Instances *)

RECURSIVE RunBody(_, _, _, _)
\* The statements of the generated __init__ from statement i on, on an
\* instance whose slots hold attrs: Return(attrs) or the exception raised.
\* The name object is looked up in the locals first: a parameter named object
\* shadows the builtin, and the __setattr__ of the value it holds takes two
\* arguments, not three.
RunBody(cls, locals, attrs, i) ==
    IF i > Len(cls.init.body) THEN Return(attrs)
    ELSE LET stmt == cls.init.body[i]
         IN  IF stmt.stmt = "pass" THEN RunBody(cls, locals, attrs, i + 1)
             ELSE IF "object" \in DOMAIN locals
             THEN Raise("TypeError", "expected 2 arguments, got 3")
             ELSE IF stmt.attr \notin SlotNames(cls.slots)
             THEN Raise("AttributeError", stmt.attr)
             ELSE RunBody(cls, locals,
                          [n \in DOMAIN attrs \cup {stmt.attr} |->
                              IF n = stmt.attr THEN locals[stmt.value] ELSE attrs[n]],
                          i + 1)

\* cls(*args, **kwargs) for record class number c: Return(instance) or the
\* exception raised
Instantiate(c, args, kwargs) ==
    LET cls == classes[c]
        bound == BindCall(cls.init.params, cls.init.defaults, cls.init.kwdefaults,
                          <<SelfRef>> \o args, kwargs)
        run == RunBody(cls, bound.value, <<>>, 1)
    IN  IF ~bound.ok THEN bound
        ELSE IF ~run.ok THEN run
        ELSE Return([kind |-> "record", cls |-> c, attrs |-> run.value])

\* A name no identifier equals: the object() in the default of
\* getattr(type(other), "__slots__", [object()])
FreshObject == "<object>"
\* __slots__ of a hand-built class that declares none
NoSlots == [t |-> "absent", v |-> <<>>]

\* type(obj).__name__
TypeName(obj) == IF obj.kind = "record" THEN classes[obj.cls].name ELSE "HasSlots"

\* type(obj).__slots__, NoSlots when the type has none
TypeSlots(obj) == IF obj.kind = "record" THEN classes[obj.cls].slots ELSE obj.slots

RECURSIVE EqLoop(_, _, _, _)
\* The attribute loop of Record.__eq__ over the names in iteration order
EqLoop(self, other, order, i) ==
    IF i > Len(order) THEN True
    ELSE IF order[i] \notin DOMAIN other.attrs THEN NotImplemented
    ELSE IF ~PyEq(self.attrs[order[i]], other.attrs[order[i]]) THEN False
    ELSE EqLoop(self, other, order, i + 1)

\* The orders in which a frozenset of names may be iterated
IterOrders(S) ==
    { s \in [1..Cardinality(S) -> S] : \A i, j \in DOMAIN s : i # j => s[i] # s[j] }

\* Record.__eq__ with an empty default for a missing __slots__
RecordEqEmptyDefault(self, other, order) ==
    LET other_attrs == IF TypeSlots(other) = NoSlots THEN {}
                       ELSE Range(SlotsIter(TypeSlots(other)))
        self_attrs == Range(SlotsIter(TypeSlots(self)))
    IN  IF self_attrs # other_attrs THEN NotImplemented
        ELSE EqLoop(self, other, order, 1)

\* Record.__eq__(self, other), iterating self_attrs in the given order
RecordEq(self, other, order) ==
    LET other_attrs == IF TypeSlots(other) = NoSlots THEN {FreshObject}
                       ELSE Range(SlotsIter(TypeSlots(other)))
        self_attrs == Range(SlotsIter(TypeSlots(self)))
    IN  IF self_attrs # other_attrs THEN NotImplemented
        ELSE EqLoop(self, other, order, 1)

\* Record.__hash__ over the field values in reverse order
RecordHashReversed(self) ==
    LET names == SlotsIter(TypeSlots(self))
    IN  HashTuple([i \in DOMAIN names |-> self.attrs[names[Len(names) + 1 - i]]])

\* Record.__hash__(self)
RecordHash(self) ==
    LET names == SlotsIter(TypeSlots(self))
    IN  HashTuple([i \in DOMAIN names |-> self.attrs[names[i]]])

\* A __setattr__ that stores into a declared slot as object.__setattr__ does
RecordSetattrStores(self, name, value) ==
    IF name \in DOMAIN self.attrs
    THEN [result |-> Return(None),
          self |-> [self EXCEPT !.attrs = [self.attrs EXCEPT ![name] = value]]]
    ELSE [result |-> Raise("AttributeError", name), self |-> self]

\* Record.__setattr__(self, name, value): the exception raised, and self after
RecordSetattr(self, name, value) ==
    [result |-> Raise("TypeError",
                      TypeName(self) \o " object does not support attribute assignment"),
     self |-> self]

\* Record.__delattr__(self, name): the exception raised, and self after
RecordDelattr(self, name) ==
    [result |-> Raise("TypeError",
                      TypeName(self) \o " object does not support attribute deletion"),
     self |-> self]

\* inspect.signature(self.__init__).parameters: the bound method drops self
BoundInitParams(self) == Tail(classes[self.cls].init.params)

\* A __repr__ entry that renders a keyword-only field as a bare value
ReprEntryBareKeywordOnly(self, parameter) ==
    LET param_repr == PyRepr(self.attrs[parameter.name])
    IN  IF parameter.kind \in {POSITIONAL_ONLY, KEYWORD_ONLY} THEN param_repr
        ELSE IF parameter.kind = POSITIONAL_OR_KEYWORD
        THEN parameter.name \o "=" \o param_repr
        ELSE IF parameter.kind = VAR_POSITIONAL THEN "*" \o param_repr
        ELSE "**" \o param_repr

\* One entry of the argument list __repr__ builds
ReprEntry(self, parameter) ==
    LET param_repr == PyRepr(self.attrs[parameter.name])
    IN  IF parameter.kind = POSITIONAL_ONLY THEN param_repr
        ELSE IF parameter.kind \in {POSITIONAL_OR_KEYWORD, KEYWORD_ONLY}
        THEN parameter.name \o "=" \o param_repr
        ELSE IF parameter.kind = VAR_POSITIONAL THEN "*" \o param_repr
        ELSE "**" \o param_repr

\* Record.__repr__(self)
RecordRepr(self) ==
    LET parameters == BoundInitParams(self)
        args == [i \in DOMAIN parameters |-> ReprEntry(self, parameters[i])]
    IN  TypeName(self) \o "(" \o Join(args, ", ") \o ")"

\* object.__eq__(self, other) of a hand-built carrier: identity or NotImplemented
ObjectEq(i, j) == IF i = j THEN True ELSE NotImplemented

\* type(objs[i]).__eq__(objs[i], objs[j])
TypeEq(i, j, order) ==
    IF objs[i].kind = "record" THEN RecordEq(objs[i], objs[j], order) ELSE ObjectEq(i, j)

\* objs[i] == objs[j]: the left operand's __eq__, then the right operand's
\* reflected __eq__, then identity
EqOperator(i, j, order, reflected) ==
    LET first == TypeEq(i, j, order)
        second == TypeEq(j, i, reflected)
    IN  IF first # NotImplemented THEN first = True
        ELSE IF second # NotImplemented THEN second = True
        ELSE i = j

-----------------------------------------------------------------------------
(* Actions *)

\* The decorator applied to the function a def statement has just built; the
\* caller binds the class that record() returns
Decorate ==
    /\ last.op = "def"
    /\ LET result == record(last.func)
       IN  /\ last' = [op |-> "record", func |-> last.func, result |-> result]
           /\ classes' = IF result.ok THEN Append(classes, result.value) ELSE classes
           /\ funcs' = IF result.ok THEN Append(funcs, last.func) ELSE funcs
    /\ UNCHANGED objs

\* classes[c](*args, **kwargs); the caller keeps the instance
Construct(c, args, kwargs, maxObjs) ==
    /\ c \in DOMAIN classes
    /\ Len(objs) < maxObjs
    /\ LET result == Instantiate(c, args, kwargs)
       IN  /\ last' = [op |-> "construct", cls |-> c, args |-> args,
                       kwargs |-> kwargs, result |-> result]
           /\ objs' = IF result.ok THEN Append(objs, result.value) ELSE objs
    /\ UNCHANGED <<classes, funcs>>

\* A hand-built object of a class with the given __slots__ (NoSlots: none),
\* with the attributes of attrs assigned
MakeCarrier(slots, attrs, maxObjs) ==
    /\ Len(objs) < maxObjs
    /\ objs' = Append(objs, [kind |-> "carrier", slots |-> slots, attrs |-> attrs])
    /\ last' = [op |-> "carrier"]
    /\ UNCHANGED <<classes, funcs>>

\* objs[o].name = value on a record instance
SetAttr(o, name, value) ==
    /\ o \in DOMAIN objs /\ objs[o].kind = "record"
    /\ LET r == RecordSetattr(objs[o], name, value)
       IN  /\ objs' = [objs EXCEPT ![o] = r.self]
           /\ last' = [op |-> "setattr", obj |-> o, name |-> name, result |-> r.result]
    /\ UNCHANGED <<classes, funcs>>

\* del objs[o].name on a record instance
DelAttr(o, name) ==
    /\ o \in DOMAIN objs /\ objs[o].kind = "record"
    /\ LET r == RecordDelattr(objs[o], name)
       IN  /\ objs' = [objs EXCEPT ![o] = r.self]
           /\ last' = [op |-> "delattr", obj |-> o, name |-> name, result |-> r.result]
    /\ UNCHANGED <<classes, funcs>>

\* objs[i] == objs[j], each __eq__ iterating its frozenset in some order
Eq(i, j) ==
    /\ i \in DOMAIN objs /\ j \in DOMAIN objs
    /\ \E order \in IterOrders(Range(SlotsIter(TypeSlots(objs[i])))),
          reflected \in IterOrders(Range(SlotsIter(TypeSlots(objs[j])))) :
          last' = [op |-> "eq", a |-> i, b |-> j,
                   result |-> EqOperator(i, j, order, reflected)]
    /\ UNCHANGED <<classes, funcs, objs>>

\* hash(objs[o]) of a record instance
Hash(o) ==
    /\ o \in DOMAIN objs /\ objs[o].kind = "record"
    /\ last' = [op |-> "hash", obj |-> o, result |-> RecordHash(objs[o])]
    /\ UNCHANGED <<classes, funcs, objs>>

\* repr(objs[o]) of a record instance
Repr(o) ==
    /\ o \in DOMAIN objs /\ objs[o].kind = "record"
    /\ last' = [op |-> "repr", obj |-> o, result |-> RecordRepr(objs[o])]
    /\ UNCHANGED <<classes, funcs, objs>>

-----------------------------------------------------------------------------
(* Definition time alone: one decorated declaration, annotations included *)

InitDef ==
    /\ classes = <<>>
    /\ funcs = <<>>
    /\ objs = <<>>
    /\ last \in {[op |-> "def", func |-> f] :
                  f \in Funcs({"P"}, MaxParams, DefNames, Kinds, {Empty},
                             DefAnnotations, DefReturns)}

NextDef == Decorate

SpecDef == InitDef /\ [][NextDef]_vars

-----------------------------------------------------------------------------
(* Construction: one class of any signature, and its instances *)

CallNames == {"x", "kw", "self", "object"}
CallDefaults == {Empty, PyInt(3)}
CallReturns == {Empty, TypeObj("int")}

\* The argument lists of a call: positional values, then named values
ArgValues == {PyFloat(1), PyInt(2)}
KwNames == {"x", "kw", "self", "extra"}
KwValues == {PyStr("5")}
PosArgLists(values, n) == UNION { [1..k -> values] : k \in 0..n }
KwArgLists(names, values, n) ==
    UNION { { [i \in 1..k |-> <<ns[i], vs[i]>>] :
                ns \in NameSeqs(k, names), vs \in [1..k -> values] } : k \in 0..n }

\* A def statement has built the function that record() is about to get
Init ==
    /\ classes = <<>>
    /\ funcs = <<>>
    /\ objs = <<>>
    /\ last \in {[op |-> "def", func |-> f] :
                  f \in Funcs({"P"}, MaxCallParams, CallNames, Kinds, CallDefaults,
                             {Empty}, CallReturns)}

Next ==
    \/ Decorate
    \/ \E c \in DOMAIN classes, args \in PosArgLists(ArgValues, MaxPosArgs),
          kwargs \in KwArgLists(KwNames, KwValues, MaxKwArgs) :
          Construct(c, args, kwargs, MaxCallObjs)
    \/ \E o \in DOMAIN objs, name \in KwNames, value \in ArgValues :
          SetAttr(o, name, value)
    \/ \E o \in DOMAIN objs, name \in KwNames : DelAttr(o, name)
    \/ \E i, j \in DOMAIN objs : Eq(i, j)
    \/ \E o \in DOMAIN objs : Hash(o)
    \/ \E o \in DOMAIN objs : Repr(o)

Spec == Init /\ [][Next]_vars

-----------------------------------------------------------------------------
(* Comparison: two classes of named fields, their instances, and carriers *)

EqNames == {"x", "y"}
EqValues == {PyInt(1), PyFloat(1), PyInt(2)}
EqFuncs ==
    Funcs({"P"}, MaxEqParams, EqNames, {POSITIONAL_OR_KEYWORD}, {Empty}, {Empty},
          {Empty})

\* The hand-built carriers: a class without __slots__, or with a tuple of
\* names, and any of its slots assigned
CarrierSlots ==
    {NoSlots} \cup { [t |-> "tuple", v |-> ns] :
                        ns \in UNION { NameSeqs(k, EqNames) : k \in 0..MaxEqParams } }
CarrierAttrs(slots) ==
    UNION { [S -> {PyInt(1)}] : S \in SUBSET Range(slots.v) }

\* The record classes of the program have been defined
InitEq ==
    /\ funcs \in UNION { [1..k -> EqFuncs] : k \in 0..MaxClasses }
    /\ classes = [i \in DOMAIN funcs |-> record(funcs[i]).value]
    /\ objs = <<>>
    /\ last = [op |-> "none"]

NextEq ==
    \/ \E c \in DOMAIN classes, args \in PosArgLists(EqValues, MaxEqParams) :
          Construct(c, args, <<>>, MaxObjs)
    \/ \E slots \in CarrierSlots : \E attrs \in CarrierAttrs(slots) :
          MakeCarrier(slots, attrs, MaxObjs)
    \/ \E i, j \in DOMAIN objs : Eq(i, j)
    \/ \E o \in DOMAIN objs : Hash(o)

SpecEq == InitEq /\ [][NextEq]_vars

-----------------------------------------------------------------------------
(* Properties *)

\* The parameter names of a declaration, in declared order
DeclaredNames(func) == [i \in DOMAIN func.params |-> func.params[i].name]

\* The field values of a record instance, in the declared order of its fields
FieldValues(o) ==
    [i \in DOMAIN funcs[o.cls].params |-> o.attrs[funcs[o.cls].params[i].name]]

IsRecord(o) == objs[o].kind = "record"

\* C1: every attribute assignment or deletion attempted on a record instance,
\* on a declared field or on any other name, fails with a TypeError whose
\* message names the instance's class, and no instance ever changes after its
\* construction.
C1_MutationRejected ==
    [][ /\ \A o \in DOMAIN objs : objs'[o] = objs[o]
        /\ last'.op \in {"setattr", "delattr"} =>
              /\ ~last'.result.ok
              /\ last'.result.exc = "TypeError"
              /\ last'.result.msg =
                    classes[objs[last'.obj].cls].name
                    \o (IF last'.op = "setattr"
                        THEN " object does not support attribute assignment"
                        ELSE " object does not support attribute deletion") ]_vars

\* An assignment to a declared field of an instance has been attempted
C1_Witness ==
    /\ last.op = "setattr"
    /\ last.name \in DOMAIN objs[last.obj].attrs

\* What C2 says a == b is: the field names of a's class are those that b's
\* class exposes, and b holds every one of them with an equal value
StructurallyEqual(a, b) ==
    /\ TypeSlots(b) # NoSlots
    /\ Range(DeclaredNames(funcs[a.cls])) = Range(TypeSlots(b).v)
    /\ \A n \in Range(DeclaredNames(funcs[a.cls])) :
          n \in DOMAIN b.attrs /\ PyEq(a.attrs[n], b.attrs[n])

\* C2: for a record instance a and a record instance or hand-built carrier b,
\* a == b is true exactly when the two field-name sets are equal and b holds
\* every field with an equal value, and false (never an exception) otherwise,
\* whatever the order in which the fields are compared.
C2_StructuralEquality ==
    (last.op = "eq" /\ IsRecord(last.a)) =>
        (last.result = StructurallyEqual(objs[last.a], objs[last.b]))

\* A record with two fields has compared equal to a hand-built carrier
C2_Witness ==
    /\ last.op = "eq" /\ IsRecord(last.a) /\ ~IsRecord(last.b)
    /\ Len(funcs[objs[last.a].cls].params) = 2
    /\ last.result

\* C3: a constructor call succeeds exactly when the declaration's own calling
\* convention accepts the arguments, and then every field holds the value the
\* declaration binds to its parameter (the argument, the default, the tuple
\* of excess positional arguments, the dict of excess named arguments).
C3_InitFollowsDeclaration ==
    last.op = "construct" =>
        LET func == funcs[last.cls]
            declared == BindCall(func.params, FuncDefaults(func),
                                 FuncKwDefaults(func), last.args, last.kwargs)
        IN  IF declared.ok
            THEN last.result.ok /\ last.result.value.attrs = declared.value
            ELSE ~last.result.ok

\* C4: record() raises exactly when the declaration has a return annotation
\* other than None, and then a TypeError; every other declaration is accepted.
C4_OnlyReturnAnnotationRejected ==
    last.op = "record" =>
        IF last.func.ret \in {Empty, None}
        THEN last.result.ok
        ELSE ~last.result.ok /\ last.result.exc = "TypeError"

\* C5: the hash of a record instance is the hash of the tuple of its field
\* values in declared order; two instances of one class with pairwise equal
\* field values compare equal and hash alike, and two whose field values
\* differ somewhere hash different tuples.
C5_HashOfFieldTuple ==
    /\ last.op = "hash" => last.result = HashTuple(FieldValues(objs[last.obj]))
    /\ \A i, j \in DOMAIN objs :
          (IsRecord(i) /\ IsRecord(j) /\ objs[i].cls = objs[j].cls) =>
              IF \A k \in DOMAIN FieldValues(objs[i]) :
                    PyEq(FieldValues(objs[i])[k], FieldValues(objs[j])[k])
              THEN /\ RecordHash(objs[i]) = RecordHash(objs[j])
                   /\ (last.op = "eq" /\ last.a = i /\ last.b = j) => last.result
              ELSE RecordHash(objs[i]) # RecordHash(objs[j])

\* An instance with two fields of different values has been hashed
C5_Witness ==
    /\ last.op = "hash"
    /\ Len(FieldValues(objs[last.obj])) = 2
    /\ ~PyEq(FieldValues(objs[last.obj])[1], FieldValues(objs[last.obj])[2])

\* C6: the __slots__ of a generated class are the declaration's parameter
\* names in declared order, nothing added or dropped: no name for no
\* parameter (and the class is then constructible without arguments), and the
\* whole name, not its characters, for a single parameter.
C6_SlotsAreParameterNames ==
    /\ \A c \in DOMAIN classes :
          SlotsIter(classes[c].slots) = DeclaredNames(funcs[c])
    /\ (/\ last.op = "construct" /\ funcs[last.cls].params = <<>>
        /\ last.args = <<>> /\ last.kwargs = <<>>)
          => (last.result.ok /\ last.result.value.attrs = <<>>)

\* A class has been generated from a single parameter with a long name
C6_Witness ==
    \E c \in DOMAIN classes :
        /\ Len(funcs[c].params) = 1
        /\ funcs[c].params[1].name = "object"
        /\ SlotsIter(classes[c].slots) = <<"object">>

\* The entry C7 gives a field of the given parameter kind and value
RenderedField(p, value) ==
    CASE p.kind = POSITIONAL_ONLY -> PyRepr(value)
      [] p.kind = POSITIONAL_OR_KEYWORD -> p.name \o "=" \o PyRepr(value)
      [] p.kind = KEYWORD_ONLY -> p.name \o "=" \o PyRepr(value)
      [] p.kind = VAR_POSITIONAL -> "*" \o PyRepr(value)
      [] p.kind = VAR_KEYWORD -> "**" \o PyRepr(value)

\* C7: repr() of a record instance is the class name followed by the
\* parenthesised entries, separated by a comma and a space, of the declared
\* parameters in order: the bare value of a positional-only field, name=value
\* for a positional-or-keyword or keyword-only field, *value and **value for
\* the variadic fields; TypeName() when there are no fields.
C7_ReprFollowsSignature ==
    last.op = "repr" =>
        LET o == objs[last.obj]
            ps == funcs[o.cls].params
        IN  /\ last.result =
                  funcs[o.cls].name \o "("
                  \o Join([i \in DOMAIN ps |-> RenderedField(ps[i], o.attrs[ps[i].name])],
                          ", ")
                  \o ")"
            /\ ps = <<>> => last.result = "P()"

\* The instance P(1.0, extra='5') of def P(x, /, **kw) has been rendered
C7_Witness ==
    /\ last.op = "repr"
    /\ Len(funcs[objs[last.obj].cls].params) = 2
    /\ funcs[objs[last.obj].cls].params[2].kind = VAR_KEYWORD
    /\ last.result = "P(1.0, **{'extra': '5'})"

\* The annotation C8 gives a parameter of the given kind annotated a, for the
\* annotations the model draws
ExpectedAnnotation(kind, a) ==
    IF kind = VAR_POSITIONAL
    THEN IF a = Text(<<"i", "n", "t">>)
         THEN Text(<<"t", "u", "p", "l", "e", "[", "i", "n", "t", "]">>)
         ELSE IF a = Text(<<"U", "n", "p", "a", "c", "k", "[", "M", "]">>)
         THEN Text(<<"t", "u", "p", "l", "e", "[", "U", "n", "p", "a", "c", "k", "[",
                     "M", "]", "]">>)
         ELSE TupleOf(a)
    ELSE IF kind = VAR_KEYWORD
    THEN IF a = Text(<<"i", "n", "t">>)
         THEN Text(<<"d", "i", "c", "t", "[", "s", "t", "r", ",", " ", "i", "n", "t",
                     "]">>)
         ELSE IF a = Text(<<"U", "n", "p", "a", "c", "k", "[", "M", "]">>)
         THEN Text(<<"M">>)
         ELSE IF a = UnpackOf(TypeObj("M")) THEN TypeObj("M")
         ELSE DictOf(TypeObj("str"), a)
    ELSE a

C9_MatchArgsLeadingRun ==
    (last.op = "record" /\ last.result.ok) =>
        LET ps == last.func.params
            n == CHOOSE k \in 0..Len(ps) :
                    /\ \A i \in 1..k : IsPositional(ps[i])
                    /\ (k = Len(ps) \/ ~IsPositional(ps[k + 1]))
            match_args == last.result.value.match_args
        IN  /\ match_args = SubSeq(DeclaredNames(last.func), 1, n)
            /\ match_args = SubSeq(SlotsIter(last.result.value.slots), 1,
                                   Len(match_args))

\* A class has been generated from (pos, /, pos_kw, *, kw): two names match
C9_Witness ==
    /\ last.op = "record" /\ last.result.ok
    /\ Len(last.func.params) = 3
    /\ last.func.params[1].kind = POSITIONAL_ONLY
    /\ last.func.params[2].kind = POSITIONAL_OR_KEYWORD
    /\ last.func.params[3].kind = KEYWORD_ONLY
    /\ Len(last.result.value.match_args) = 2

\* C10: two record instances that compare equal have the same hash.
C10_EqualImpliesSameHash ==
    (last.op = "eq" /\ IsRecord(last.a) /\ IsRecord(last.b) /\ last.result) =>
        RecordHash(objs[last.a]) = RecordHash(objs[last.b])

====
